---- MODULE Spec2Model ----
(***************************************************************************)
(* A model of mpool, a fixed-size-block memory pool (mpool.c / mpool.h).   *)
(*                                                                         *)
(* The pool is the record `pool` (struct mpool), the descriptor nodes are  *)
(* the heap `blocks` (struct _block), and every caller thread runs the     *)
(* public operations as a sequence of steps, one step per access to the    *)
(* shared pool: a critical section is entered by its lock step (which      *)
(* also does the list operation done under the lock), left by its unlock   *)
(* step, and the counter updates the code does after unlocking are a read  *)
(* step and a write step.                                                  *)
(***************************************************************************)
EXTENDS Integers, Sequences, FiniteSets, TLC

(***************************************************************************)
(* Bounds of the model.                                                    *)
(***************************************************************************)
NumThreads == 2
MaxBlockSize == 2
MaxInitCap == 2
MaxCap == 3
MaxRogue == 1
MaxFaults == 1
MaxCalls == 4

Threads == 1..NumThreads

(***************************************************************************)
(* NULL, for addresses and for descriptor pointers alike.                  *)
(***************************************************************************)
NULL == 0

(***************************************************************************)
(* enum mpool_error, with the names mpool.c uses.                          *)
(***************************************************************************)
MPOOL_SUCCESS == "MPOOL_SUCCESS"
MPOOL_ERR_ALLOC == "MPOOL_ERR_ALLOC"
MPOOL_ERR_NULL_ARG == "MPOOL_ERR_NULL_ARG"
MPOOL_ERR_MUTEX == "MPOOL_ERR_MUTEX"
MPOOL_ERR_INVALID_REALLOC_SIZE == "MPOOL_ERR_INVALID_REALLOC_SIZE"
MPOOL_FULL_LIST == "MPOOL_FULL_LIST"
MPOOL_EMPTY_LIST == "MPOOL_EMPTY_LIST"

VARIABLES
    pool,      \* struct mpool
    blocks,    \* the struct _block nodes malloc'd so far: blocks[d] = [next, addr]
    brk,       \* the raw allocator: the next address malloc hands out
    pstate,    \* "uninit", "init" (init_mpool running), "ready", "failed",
               \* "freed" (after free_mpool)
    crashed,   \* the process died on a NULL dereference
    th,        \* per thread: the operation it runs, where it is, its locals;
               \* at pc "ret" the call has returned err and val to its caller
    env,       \* the environment: sequential or concurrent callers, how many
               \* releases may still break the loan discipline, how many
               \* malloc, realloc and mutex calls may still fail, how many
               \* calls the concurrent callers may still start (-1: no limit),
               \* whether init_mpool may be given a block size of 0, and
               \* whether a malloc, calloc or realloc call has failed
    loaned,    \* history: how many times each address is on loan
    pre,       \* history: the pool and the nodes when the running call began
    quota,     \* history: successful allocs in a row since init or a grow
    onlyAllocs, \* history: no mpool_dealloc or mpool_realloc call was started yet
    granted,   \* history: the capacity given to init_mpool or to the last
               \* mpool_realloc that returned MPOOL_SUCCESS
    recov,     \* history: "empty" after an mpool_alloc that found the pool
               \* empty, "recovered" after a successful release or grow since
    freed,     \* what free_mpool passed to free(), in order
    last       \* history: the last call that returned, when it was a
               \* successful mpool_alloc (with the pool and the nodes it
               \* began with) or a successful mpool_dealloc

vars == <<pool, blocks, brk, pstate, crashed, th, env, loaned, pre, quota, onlyAllocs,
          granted, recov, freed, last>>

(***************************************************************************)
(* struct mpool after calloc(1, sizeof(struct mpool)).  A mutex field      *)
(* holds the thread that owns it, 0 when free.  blobs and blob_sizes are   *)
(* the arrays, << >> standing for a NULL array pointer before init.        *)
(***************************************************************************)
ZeroPool ==
    [ block_list |-> NULL, unused_blocks |-> NULL,
      block_list_size |-> 0, unused_block_list_size |-> 0,
      block_size |-> 0, capacity |-> 0,
      blobs |-> << >>, blob_sizes |-> << >>, alloc_count |-> 0,
      blobs_null |-> FALSE, blob_sizes_null |-> FALSE,
      block_list_mutex |-> 0, unused_block_list_mutex |-> 0 ]

IdleThread ==
    [ op |-> "none", pc |-> "idle", b |-> NULL, err |-> MPOOL_SUCCESS,
      item |-> NULL, new_capacity |-> 0, val |-> NULL,
      reg |-> 0, i |-> 0, index |-> 0, pool_null |-> FALSE ]

NoPre == [ pool |-> ZeroPool, blocks |-> << >> ]
NoQuota == [ kind |-> "none", target |-> 0, n |-> 0 ]
NoLast == [ op |-> "none", addr |-> NULL, pool |-> ZeroPool, blocks |-> << >> ]

(***************************************************************************)
(* The descriptors reachable from a list head through next, in order.      *)
(* The walk stops after `fuel` nodes, so that a list a bug made cyclic     *)
(* still has a value.                                                      *)
(***************************************************************************)
RECURSIVE ListFrom(_, _, _)
ListFrom(head, blks, fuel) ==
    IF head = NULL \/ fuel = 0 THEN << >>
    ELSE <<head>> \o ListFrom(blks[head].next, blks, fuel - 1)

ListOf(head, blks) == ListFrom(head, blks, Len(blks) + 1)
AddrsOf(head, blks) == [k \in 1..Len(ListOf(head, blks)) |-> blks[ListOf(head, blks)[k]].addr]
Range(s) == {s[k] : k \in 1..Len(s)}

FreeList == ListOf(pool.block_list, blocks)
UnusedList == ListOf(pool.unused_blocks, blocks)
FreeAddrs == AddrsOf(pool.block_list, blocks)

(***************************************************************************)
(* The loans: a bag of addresses.                                          *)
(***************************************************************************)
Loans(a) == IF a \in DOMAIN loaned THEN loaned[a] ELSE 0
AddLoan(bag, a) ==
    [x \in DOMAIN bag \cup {a} |-> (IF x \in DOMAIN bag THEN bag[x] ELSE 0) + (IF x = a THEN 1 ELSE 0)]
DropLoan(bag, a) ==
    IF a \notin DOMAIN bag THEN bag
    ELSE [x \in {y \in DOMAIN bag : y # a \/ bag[y] > 1} |-> IF x = a THEN bag[x] - 1 ELSE bag[x]]
RECURSIVE BagSize(_)
BagSize(bag) ==
    IF DOMAIN bag = {} THEN 0
    ELSE LET a == CHOOSE x \in DOMAIN bag : TRUE
         IN  bag[a] + BagSize([x \in DOMAIN bag \ {a} |-> bag[x]])
NumLoans == BagSize(loaned)

(***************************************************************************)
(* What the environment lets a library call do.                            *)
(***************************************************************************)
MallocResults == IF env.faults > 0 THEN {TRUE, FALSE} ELSE {TRUE}
MutexResults == IF env.faults > 0 THEN {TRUE, FALSE} ELSE {TRUE}
Failed(ok) == env' = IF ok THEN env ELSE [env EXCEPT !.faults = @ - 1]
\* the same for malloc, calloc and realloc
FailedAlloc(ok) ==
    env' = IF ok THEN env ELSE [env EXCEPT !.faults = @ - 1, !.alloc_failed = TRUE]

(***************************************************************************)
(* The arguments the callers pass to init_mpool and mpool_realloc.         *)
(***************************************************************************)
BlockSizes == 1..MaxBlockSize
\* init_mpool takes any size_t, 0 too
InitBlockSizes == IF env.zero THEN {0} \cup BlockSizes ELSE BlockSizes
InitCaps == 0..MaxInitCap
NewCaps == 0..MaxCap

Quiescent == \A t \in Threads : th[t].pc = "idle"
MayCall(t) ==
    /\ ~crashed
    /\ pstate = "ready"
    /\ th[t].pc = "idle"
    /\ env.seq => (t = 1)
    /\ env.calls # 0

\* the environment after one more call was started
Called(e) == IF e.calls > 0 THEN [e EXCEPT !.calls = @ - 1] ELSE e

(***************************************************************************)
(* History kept at the start of a public call and at its return.           *)
(***************************************************************************)
Begin(op, counted) ==
    /\ pre' = IF env.seq THEN [pool |-> pool, blocks |-> blocks] ELSE NoPre
    /\ onlyAllocs' = (onlyAllocs /\ (op = "alloc" \/ ~counted))

QuotaAfter(op, e) ==
    IF ~env.seq THEN NoQuota
    ELSE IF op = "init" /\ e = MPOOL_SUCCESS
    THEN [kind |-> "init", target |-> pool.capacity, n |-> 0]
    ELSE IF op = "realloc" /\ e = MPOOL_SUCCESS
    THEN [kind |-> "grow",
          target |-> Len(ListOf(pre.pool.block_list, pre.blocks))
                     + (pool.capacity - pre.pool.capacity),
          n |-> 0]
    ELSE IF op = "alloc" /\ e = MPOOL_SUCCESS /\ quota.kind # "none"
    THEN [quota EXCEPT !.n = IF @ <= MaxCap THEN @ + 1 ELSE @]
    ELSE IF op \in {"alloc", "capacity"} THEN quota
    ELSE NoQuota

RecovAfter(op, e) ==
    IF ~env.seq THEN "none"
    ELSE IF op = "alloc" /\ e = MPOOL_EMPTY_LIST THEN "empty"
    ELSE IF op = "alloc" /\ e = MPOOL_SUCCESS THEN "none"
    ELSE IF op \in {"dealloc", "realloc"} /\ e = MPOOL_SUCCESS /\ recov # "none"
    THEN "recovered"
    ELSE recov

\* the call thread t has returned from, as the next call will see it
LastAfter(t) ==
    IF ~env.seq \/ th[t].err # MPOOL_SUCCESS THEN NoLast
    ELSE IF th[t].op = "alloc"
    THEN [op |-> "alloc", addr |-> th[t].val, pool |-> pre.pool, blocks |-> pre.blocks]
    ELSE IF th[t].op = "dealloc"
    THEN [NoLast EXCEPT !.op = "dealloc", !.addr = th[t].item]
    ELSE NoLast

(***************************************************************************)
(* A step either moves its thread on inside the operation (Goto) or        *)
(* returns from the public call with an error code and a value (Finish).   *)
(***************************************************************************)
At(t, label) == ~crashed /\ th[t].pc = label

\* the last call is remembered through the call that follows it at once
\* when that one is the release of the address just allocated, or an alloc
\* after a release
KeepLast(t, rec) ==
    IF th[t].pc # "idle" THEN last
    ELSE IF \/ last.op = "alloc" /\ rec.op = "dealloc" /\ rec.item = last.addr
            \/ last.op = "dealloc" /\ rec.op = "alloc"
    THEN last
    ELSE NoLast

Goto(t, rec) ==
    /\ th' = [th EXCEPT ![t] = rec]
    /\ last' = KeepLast(t, rec)
    /\ UNCHANGED <<loaned, quota, pstate, granted, recov, freed>>

Finish(t, op, e, val) ==
    Goto(t, [IdleThread EXCEPT !.op = op, !.pc = "ret", !.err = e, !.val = val,
                               !.item = th[t].item,
                               !.new_capacity = th[t].new_capacity])

(***************************************************************************)
(* The caller takes the result: an address mpool_alloc returned with       *)
(* MPOOL_SUCCESS is on loan from now on, an address mpool_dealloc took     *)
(* with MPOOL_SUCCESS is not any more.                                     *)
(***************************************************************************)
return_to_caller(t) ==
    /\ At(t, "ret")
    /\ UNCHANGED <<pool, blocks, brk, crashed, env, onlyAllocs>>
    /\ th' = [th EXCEPT ![t] = IdleThread]
    /\ pre' = NoPre
    /\ loaned' = IF th[t].op = "alloc" /\ th[t].err = MPOOL_SUCCESS /\ th[t].val # NULL
                 THEN AddLoan(loaned, th[t].val)
                 ELSE IF th[t].op = "dealloc" /\ th[t].err = MPOOL_SUCCESS
                 THEN DropLoan(loaned, th[t].item)
                 ELSE loaned
    /\ quota' = QuotaAfter(th[t].op, th[t].err)
    /\ pstate' = IF th[t].op = "init"
                 THEN (IF th[t].err = MPOOL_SUCCESS THEN "ready" ELSE "failed")
                 ELSE pstate
    /\ granted' = IF th[t].op \in {"init", "realloc"} /\ th[t].err = MPOOL_SUCCESS
                  THEN th[t].new_capacity
                  ELSE granted
    /\ recov' = RecovAfter(th[t].op, th[t].err)
    /\ last' = LastAfter(t)
    /\ UNCHANGED freed


(***************************************************************************)
(* _insert_block_list and _remove_block_list: the list primitives, run     *)
(* with the list's mutex held.  Each gives the error code, the new head    *)
(* and the new nodes (and the node removed).                               *)
(***************************************************************************)
\* an insertion that forgets the rest of the list
insert_block_list_DropTail(block, head, blks) ==
    IF block = NULL
    THEN [err |-> MPOOL_ERR_NULL_ARG, head |-> head, blocks |-> blks]
    ELSE [err |-> MPOOL_SUCCESS, head |-> block,
          blocks |-> [blks EXCEPT ![block].next = NULL]]

\* an insertion that leaves the head where it was
insert_block_list_NoLink(block, head, blks) ==
    IF block = NULL
    THEN [err |-> MPOOL_ERR_NULL_ARG, head |-> head, blocks |-> blks]
    ELSE [err |-> MPOOL_SUCCESS, head |-> head,
          blocks |-> [blks EXCEPT ![block].next = head]]

\* an insertion behind the head of a list that is not empty
insert_block_list_Behind(block, head, blks) ==
    IF block = NULL
    THEN [err |-> MPOOL_ERR_NULL_ARG, head |-> head, blocks |-> blks]
    ELSE IF head = NULL
    THEN [err |-> MPOOL_SUCCESS, head |-> block,
          blocks |-> [blks EXCEPT ![block].next = NULL]]
    ELSE [err |-> MPOOL_SUCCESS, head |-> head,
          blocks |-> [blks EXCEPT ![block].next = blks[head].next,
                                  ![head].next = block]]

insert_block_list(block, head, blks) ==
    IF block = NULL
    THEN [err |-> MPOOL_ERR_NULL_ARG, head |-> head, blocks |-> blks]
    ELSE [err |-> MPOOL_SUCCESS, head |-> block,
          blocks |-> [blks EXCEPT ![block].next = head]]

\* a removal that leaves the head where it was
remove_block_list_NoPop(old, head, blks) ==
    IF head = NULL
    THEN [err |-> MPOOL_EMPTY_LIST, block |-> old, head |-> head]
    ELSE [err |-> MPOOL_SUCCESS, block |-> head, head |-> head]

remove_block_list(old, head, blks) ==
    IF head = NULL
    THEN [err |-> MPOOL_EMPTY_LIST, block |-> old, head |-> head]
    ELSE [err |-> MPOOL_SUCCESS, block |-> head, head |-> blks[head].next]

(***************************************************************************)
(* The raw allocator: malloc(n) hands out the range starting at brk.  A    *)
(* request of 0 bytes still gets an address of its own.                    *)
(***************************************************************************)
MallocBrk(n) == brk + (IF n > 0 THEN n ELSE 1)

(***************************************************************************)
(* init_mpool, up to its call of _partition_blob.  It returns when calloc  *)
(* or MUTEX_INIT fails, and goes on after a malloc that failed.            *)
(***************************************************************************)
\* the calls that fail in a run of init_mpool, up to its return or its crash
InitFaults(okPool, okMutex, okBlobs, okBlob, okSizes) ==
    IF ~okPool \/ ~okMutex \/ ~okBlobs THEN 1
    ELSE (IF okBlob THEN 0 ELSE 1) + (IF okSizes THEN 0 ELSE 1)

init_mpool(t) ==
    /\ ~crashed /\ pstate = "uninit" /\ t = 1 /\ th[t].pc = "idle"
    /\ \E block_size \in InitBlockSizes, capacity \in InitCaps :
       \E okPool \in MallocResults, okMutex \in MutexResults,
          okBlobs \in MallocResults, okBlob \in MallocResults,
          okSizes \in MallocResults :
          /\ Begin("init", FALSE)
          /\ InitFaults(okPool, okMutex, okBlobs, okBlob, okSizes) <= env.faults
          /\ env' = [env EXCEPT
                        !.faults = @ - InitFaults(okPool, okMutex, okBlobs, okBlob, okSizes),
                        !.alloc_failed = ~okPool \/ (okMutex /\ ~(okBlobs /\ okBlob /\ okSizes))]
          /\ UNCHANGED blocks
          /\ IF ~okPool
             THEN /\ Finish(t, "init", MPOOL_ERR_ALLOC, NULL)
                  /\ UNCHANGED <<pool, brk, crashed>>
             ELSE IF ~okMutex
             THEN /\ Finish(t, "init", MPOOL_ERR_MUTEX, NULL)
                  /\ pool' = [ZeroPool EXCEPT !.block_size = block_size,
                                              !.capacity = capacity]
                  /\ UNCHANGED <<brk, crashed>>
             ELSE IF ~okBlobs \/ ~okSizes
             THEN \* blobs[0] = ... or blob_sizes[0] = ... through a NULL array
                  /\ crashed' = TRUE
                  /\ pool' = [ZeroPool EXCEPT !.block_size = block_size,
                                              !.capacity = capacity,
                                              !.alloc_count = 1]
                  /\ UNCHANGED <<brk, th, loaned, quota, pstate, granted, recov, freed, last>>
             ELSE /\ pool' = [ZeroPool EXCEPT
                                !.block_size = block_size,
                                !.capacity = capacity,
                                !.alloc_count = 1,
                                !.blobs = << IF okBlob THEN brk ELSE NULL >>,
                                !.blob_sizes = << block_size * capacity >>]
                  /\ brk' = IF okBlob THEN MallocBrk(block_size * capacity) ELSE brk
                  /\ th' = [th EXCEPT ![t] = [IdleThread EXCEPT
                                !.op = "init", !.pc = "pb_loop", !.index = 0, !.i = 0,
                                !.new_capacity = capacity]]
                  /\ pstate' = "init"
                  /\ UNCHANGED <<crashed, loaned, quota, granted, recov, freed, last>>

(***************************************************************************)
(* _add_block returns e to its caller: mpool_dealloc returns it, and       *)
(* _partition_blob returns it unless it is MPOOL_SUCCESS, and then goes    *)
(* on with the next stride.                                                *)
(***************************************************************************)
AddBlockDone(t, e, size) ==
    IF th[t].op = "dealloc" THEN Finish(t, "dealloc", e, NULL)
    ELSE IF e # MPOOL_SUCCESS THEN Finish(t, th[t].op, e, NULL)
    ELSE Goto(t, [th[t] EXCEPT !.pc = "pb_loop", !.b = NULL, !.reg = 0,
                               !.err = MPOOL_SUCCESS, !.i = @ + size])

(***************************************************************************)
(* The address of the block at offset i of blob index: blobs[index] + i.   *)
(***************************************************************************)
\* the blob's address without the offset
BlockAddr_NoOffset(blobs, index, i) == blobs[index + 1]

BlockAddr(blobs, index, i) == blobs[index + 1] + i

(***************************************************************************)
(* _partition_blob: one turn of the loop, with its call of _create_block.  *)
(***************************************************************************)
partition_blob(t) ==
    /\ At(t, "pb_loop")
    /\ UNCHANGED <<pool, brk, crashed, pre, onlyAllocs>>
    /\ IF th[t].i < pool.blob_sizes[th[t].index + 1]
       THEN LET ptr == BlockAddr(pool.blobs, th[t].index, th[t].i) IN
            \E ok \in MallocResults :
               FailedAlloc(ok \/ ptr = NULL) /\
               IF ptr = NULL
               THEN /\ Finish(t, th[t].op, MPOOL_ERR_NULL_ARG, NULL)
                    /\ UNCHANGED blocks
               ELSE IF ~ok
               THEN /\ Finish(t, th[t].op, MPOOL_ERR_ALLOC, NULL)
                    /\ UNCHANGED blocks
               ELSE /\ blocks' = Append(blocks, [next |-> NULL, addr |-> ptr])
                    /\ Goto(t, [th[t] EXCEPT !.pc = "ab_check", !.b = Len(blocks) + 1])
       ELSE /\ Finish(t, th[t].op, MPOOL_SUCCESS, NULL)
            /\ UNCHANGED <<blocks, env>>

(***************************************************************************)
(* _add_block: the capacity guard (read without the mutex), the critical   *)
(* section, and the counter update after it.                               *)
(***************************************************************************)
\* the guard with >= for >
add_block_check_Strict(t) ==
    /\ At(t, "ab_check")
    /\ UNCHANGED <<pool, blocks, brk, crashed, env, pre, onlyAllocs>>
    /\ IF pool.block_list_size + 1 >= pool.capacity
       THEN AddBlockDone(t, MPOOL_FULL_LIST, pool.block_size)
       ELSE Goto(t, [th[t] EXCEPT !.pc = "ab_lock"])

add_block_check(t) ==
    /\ At(t, "ab_check")
    /\ UNCHANGED <<pool, blocks, brk, crashed, env, pre, onlyAllocs>>
    /\ IF pool.block_list_size + 1 > pool.capacity
       THEN AddBlockDone(t, MPOOL_FULL_LIST, pool.block_size)
       ELSE Goto(t, [th[t] EXCEPT !.pc = "ab_lock"])

add_block_lock(t) ==
    /\ At(t, "ab_lock")
    /\ UNCHANGED <<brk, crashed, pre, onlyAllocs>>
    /\ \E ok \in MutexResults :
          Failed(ok) /\
          IF ~ok
          THEN /\ AddBlockDone(t, MPOOL_ERR_MUTEX, pool.block_size)
               /\ UNCHANGED <<pool, blocks>>
          ELSE LET r == insert_block_list(th[t].b, pool.block_list, blocks) IN
               /\ pool.block_list_mutex = 0
               /\ pool' = [pool EXCEPT !.block_list_mutex = t, !.block_list = r.head]
               /\ blocks' = r.blocks
               /\ Goto(t, [th[t] EXCEPT !.pc = "ab_unlock", !.err = r.err])

add_block_unlock(t) ==
    /\ At(t, "ab_unlock")
    /\ UNCHANGED <<blocks, brk, crashed, pre, onlyAllocs>>
    /\ \E ok \in MutexResults :
          Failed(ok) /\
          IF ~ok
          THEN /\ AddBlockDone(t, MPOOL_ERR_MUTEX, pool.block_size)
               /\ UNCHANGED pool
          ELSE /\ pool' = [pool EXCEPT !.block_list_mutex = 0]
               /\ IF th[t].err = MPOOL_SUCCESS
                  THEN Goto(t, [th[t] EXCEPT !.pc = "ab_inc_rd"])
                  ELSE AddBlockDone(t, th[t].err, pool.block_size)

add_block_inc_read(t) ==
    /\ At(t, "ab_inc_rd")
    /\ UNCHANGED <<pool, blocks, brk, crashed, env, pre, onlyAllocs>>
    /\ Goto(t, [th[t] EXCEPT !.pc = "ab_inc_wr", !.reg = pool.block_list_size])

add_block_inc_write(t) ==
    /\ At(t, "ab_inc_wr")
    /\ UNCHANGED <<blocks, brk, crashed, env, pre, onlyAllocs>>
    /\ pool' = [pool EXCEPT !.block_list_size = th[t].reg + 1]
    /\ AddBlockDone(t, MPOOL_SUCCESS, pool.block_size)

(***************************************************************************)
(* mpool_alloc.  The call step is the NULL check and the first read of     *)
(* _remove_block: pool->block_list, read without the mutex.                *)
(***************************************************************************)
mpool_alloc(t) ==
    /\ MayCall(t)
    /\ UNCHANGED <<pool, blocks, brk, crashed>>
    /\ env' = Called(env)
    /\ \E poolArg \in BOOLEAN :
          /\ Begin("alloc", poolArg)
          /\ IF ~poolArg
             THEN Goto(t, [IdleThread EXCEPT !.op = "alloc", !.pc = "ret",
                                             !.err = MPOOL_ERR_NULL_ARG,
                                             !.pool_null = TRUE])
             ELSE IF pool.block_list = NULL
             THEN Finish(t, "alloc", MPOOL_EMPTY_LIST, NULL)
             ELSE Goto(t, [IdleThread EXCEPT !.op = "alloc", !.pc = "rb_lock"])

(***************************************************************************)
(* _remove_block: the critical section and the counter update after it.    *)
(***************************************************************************)
remove_block_lock(t) ==
    /\ At(t, "rb_lock")
    /\ UNCHANGED <<blocks, brk, crashed, pre, onlyAllocs>>
    /\ \E ok \in MutexResults :
          Failed(ok) /\
          IF ~ok
          THEN /\ Finish(t, "alloc", MPOOL_ERR_MUTEX, NULL)
               /\ UNCHANGED pool
          ELSE LET r == remove_block_list(th[t].b, pool.block_list, blocks) IN
               /\ pool.block_list_mutex = 0
               /\ pool' = [pool EXCEPT !.block_list_mutex = t, !.block_list = r.head]
               /\ Goto(t, [th[t] EXCEPT !.pc = "rb_unlock", !.b = r.block, !.err = r.err])

\* a return from the critical section with the mutex still held
remove_block_unlock_Keep(t) ==
    /\ At(t, "rb_unlock")
    /\ UNCHANGED <<pool, blocks, brk, crashed, env, pre, onlyAllocs>>
    /\ IF th[t].err = MPOOL_SUCCESS
       THEN Goto(t, [th[t] EXCEPT !.pc = "rb_dec_rd"])
       ELSE Finish(t, "alloc", th[t].err, NULL)

remove_block_unlock(t) ==
    /\ At(t, "rb_unlock")
    /\ UNCHANGED <<blocks, brk, crashed, pre, onlyAllocs>>
    /\ \E ok \in MutexResults :
          Failed(ok) /\
          IF ~ok
          THEN /\ Finish(t, "alloc", MPOOL_ERR_MUTEX, NULL)
               /\ UNCHANGED pool
          ELSE /\ pool' = [pool EXCEPT !.block_list_mutex = 0]
               /\ IF th[t].err = MPOOL_SUCCESS
                  THEN Goto(t, [th[t] EXCEPT !.pc = "rb_dec_rd"])
                  ELSE Finish(t, "alloc", th[t].err, NULL)

remove_block_dec_read(t) ==
    /\ At(t, "rb_dec_rd")
    /\ UNCHANGED <<pool, blocks, brk, crashed, env, pre, onlyAllocs>>
    /\ Goto(t, [th[t] EXCEPT !.pc = "rb_dec_wr", !.reg = pool.block_list_size])

\* an alloc that takes the address out of the descriptor
remove_block_dec_write_Take(t) ==
    /\ At(t, "rb_dec_wr")
    /\ UNCHANGED <<brk, crashed, env, pre, onlyAllocs>>
    /\ pool' = [pool EXCEPT !.block_list_size = th[t].reg - 1]
    /\ blocks' = [blocks EXCEPT ![th[t].b].addr = NULL]
    /\ Goto(t, [th[t] EXCEPT !.pc = "au_lock", !.reg = 0,
                             !.item = blocks[th[t].b].addr])

\* the write of block_list_size--, then mpool_alloc's item = b->addr
remove_block_dec_write(t) ==
    /\ At(t, "rb_dec_wr")
    /\ UNCHANGED <<blocks, brk, crashed, env, pre, onlyAllocs>>
    /\ pool' = [pool EXCEPT !.block_list_size = th[t].reg - 1]
    /\ Goto(t, [th[t] EXCEPT !.pc = "au_lock", !.reg = 0,
                             !.item = blocks[th[t].b].addr])

(***************************************************************************)
(* _add_to_unused_list: it returns MPOOL_ERR_MUTEX when a mutex call       *)
(* fails, and MPOOL_SUCCESS otherwise.                                     *)
(***************************************************************************)
\* a failed MUTEX_LOCK that is not reported
add_to_unused_list_lock_Ignore(t) ==
    /\ At(t, "au_lock")
    /\ UNCHANGED <<brk, crashed, pre, onlyAllocs>>
    /\ \E ok \in MutexResults :
          Failed(ok) /\
          IF ~ok
          THEN /\ Finish(t, "alloc", MPOOL_SUCCESS, th[t].item)
               /\ UNCHANGED <<pool, blocks>>
          ELSE LET r == insert_block_list(th[t].b, pool.unused_blocks, blocks) IN
               /\ pool.unused_block_list_mutex = 0
               /\ pool' = [pool EXCEPT !.unused_block_list_mutex = t,
                                       !.unused_blocks = r.head]
               /\ blocks' = r.blocks
               /\ Goto(t, [th[t] EXCEPT !.pc = "au_unlock", !.err = r.err])

add_to_unused_list_lock(t) ==
    /\ At(t, "au_lock")
    /\ UNCHANGED <<brk, crashed, pre, onlyAllocs>>
    /\ \E ok \in MutexResults :
          Failed(ok) /\
          IF ~ok
          THEN /\ Finish(t, "alloc", MPOOL_ERR_MUTEX, th[t].item)
               /\ UNCHANGED <<pool, blocks>>
          ELSE LET r == insert_block_list(th[t].b, pool.unused_blocks, blocks) IN
               /\ pool.unused_block_list_mutex = 0
               /\ pool' = [pool EXCEPT !.unused_block_list_mutex = t,
                                       !.unused_blocks = r.head]
               /\ blocks' = r.blocks
               /\ Goto(t, [th[t] EXCEPT !.pc = "au_unlock", !.err = r.err])

add_to_unused_list_unlock(t) ==
    /\ At(t, "au_unlock")
    /\ UNCHANGED <<blocks, brk, crashed, pre, onlyAllocs>>
    /\ \E ok \in MutexResults :
          Failed(ok) /\
          IF ~ok
          THEN /\ Finish(t, "alloc", MPOOL_ERR_MUTEX, th[t].item)
               /\ UNCHANGED pool
          ELSE /\ pool' = [pool EXCEPT !.unused_block_list_mutex = 0]
               /\ IF th[t].err = MPOOL_SUCCESS
                  THEN Goto(t, [th[t] EXCEPT !.pc = "au_inc_rd"])
                  ELSE Finish(t, "alloc", MPOOL_SUCCESS, th[t].item)

add_to_unused_list_inc_read(t) ==
    /\ At(t, "au_inc_rd")
    /\ UNCHANGED <<pool, blocks, brk, crashed, env, pre, onlyAllocs>>
    /\ Goto(t, [th[t] EXCEPT !.pc = "au_inc_wr", !.reg = pool.unused_block_list_size])

add_to_unused_list_inc_write(t) ==
    /\ At(t, "au_inc_wr")
    /\ UNCHANGED <<blocks, brk, crashed, env, pre, onlyAllocs>>
    /\ pool' = [pool EXCEPT !.unused_block_list_size = th[t].reg + 1]
    /\ Finish(t, "alloc", MPOOL_SUCCESS, th[t].item)

(***************************************************************************)
(* The addresses a caller may pass to mpool_dealloc: under loan            *)
(* discipline one that is on loan and not being released by another call,  *)
(* otherwise any address up to the first one past the blobs.               *)
(***************************************************************************)
Releasing(a) == Cardinality({u \in Threads : th[u].op = "dealloc" /\ th[u].item = a})
OnLoan == {a \in DOMAIN loaned : Loans(a) > Releasing(a)}
DeallocArgs == IF env.rogue > 0 THEN 1..brk ELSE OnLoan

(***************************************************************************)
(* mpool_dealloc: the call step is the NULL check.                         *)
(***************************************************************************)
\* a check of the pool alone
DeallocNullArg_PoolOnly(item, poolArg) == ~poolArg

DeallocNullArg(item, poolArg) == item = NULL \/ ~poolArg

mpool_dealloc(t) ==
    /\ MayCall(t)
    /\ UNCHANGED <<pool, blocks, brk, crashed>>
    /\ \E item \in DeallocArgs \cup {NULL}, poolArg \in BOOLEAN :
          /\ Begin("dealloc", item # NULL /\ poolArg)
          /\ env' = IF item = NULL \/ ~poolArg \/ item \in OnLoan THEN Called(env)
                    ELSE [Called(env) EXCEPT !.rogue = @ - 1]
          /\ IF DeallocNullArg(item, poolArg)
             THEN Goto(t, [IdleThread EXCEPT !.op = "dealloc", !.pc = "ret",
                                             !.err = MPOOL_ERR_NULL_ARG,
                                             !.item = item,
                                             !.pool_null = ~poolArg])
             ELSE Goto(t, [IdleThread EXCEPT !.op = "dealloc", !.pc = "ru_lock",
                                             !.item = item])

(***************************************************************************)
(* _remove_from_unused_list: it returns MPOOL_ERR_MUTEX when a mutex call  *)
(* fails, and MPOOL_SUCCESS otherwise, also when the list was empty and    *)
(* *block was left as it was (NULL).                                       *)
(***************************************************************************)
remove_from_unused_list_lock(t) ==
    /\ At(t, "ru_lock")
    /\ UNCHANGED <<blocks, brk, crashed, pre, onlyAllocs>>
    /\ \E ok \in MutexResults :
          Failed(ok) /\
          IF ~ok
          THEN /\ Finish(t, "dealloc", MPOOL_ERR_MUTEX, NULL)
               /\ UNCHANGED pool
          ELSE LET r == remove_block_list(th[t].b, pool.unused_blocks, blocks) IN
               /\ pool.unused_block_list_mutex = 0
               /\ pool' = [pool EXCEPT !.unused_block_list_mutex = t,
                                       !.unused_blocks = r.head]
               /\ Goto(t, [th[t] EXCEPT !.pc = "ru_unlock", !.b = r.block, !.err = r.err])

remove_from_unused_list_unlock(t) ==
    /\ At(t, "ru_unlock")
    /\ UNCHANGED <<blocks, brk, crashed, pre, onlyAllocs>>
    /\ \E ok \in MutexResults :
          Failed(ok) /\
          IF ~ok
          THEN /\ Finish(t, "dealloc", MPOOL_ERR_MUTEX, NULL)
               /\ UNCHANGED pool
          ELSE /\ pool' = [pool EXCEPT !.unused_block_list_mutex = 0]
               /\ IF th[t].err = MPOOL_SUCCESS
                  THEN Goto(t, [th[t] EXCEPT !.pc = "ru_dec_rd"])
                  ELSE Goto(t, [th[t] EXCEPT !.pc = "de_store", !.err = MPOOL_SUCCESS])

remove_from_unused_list_dec_read(t) ==
    /\ At(t, "ru_dec_rd")
    /\ UNCHANGED <<pool, blocks, brk, crashed, env, pre, onlyAllocs>>
    /\ Goto(t, [th[t] EXCEPT !.pc = "ru_dec_wr", !.reg = pool.unused_block_list_size])

remove_from_unused_list_dec_write(t) ==
    /\ At(t, "ru_dec_wr")
    /\ UNCHANGED <<blocks, brk, crashed, env, pre, onlyAllocs>>
    /\ pool' = [pool EXCEPT !.unused_block_list_size = th[t].reg - 1]
    /\ Goto(t, [th[t] EXCEPT !.pc = "de_store", !.reg = 0])

(***************************************************************************)
(* mpool_dealloc's b->addr = item.  With b NULL the store is undefined     *)
(* behaviour: the process dies on it, or the store is lost and the call    *)
(* goes on to _add_block(NULL, pool).                                      *)
(***************************************************************************)
NullStoreOutcomes == {"crash", "lost"}

\* the descriptor keeps the address it had
mpool_dealloc_store_Keep(t) ==
    /\ At(t, "de_store")
    /\ th[t].b # NULL
    /\ UNCHANGED <<pool, blocks, brk, crashed, env, pre, onlyAllocs>>
    /\ Goto(t, [th[t] EXCEPT !.pc = "ab_check"])

mpool_dealloc_store(t) ==
    /\ At(t, "de_store")
    /\ UNCHANGED <<pool, brk, env, pre, onlyAllocs>>
    /\ IF th[t].b # NULL
       THEN /\ blocks' = [blocks EXCEPT ![th[t].b].addr = th[t].item]
            /\ Goto(t, [th[t] EXCEPT !.pc = "ab_check"])
            /\ UNCHANGED crashed
       ELSE \E outcome \in NullStoreOutcomes :
               IF outcome = "crash"
               THEN /\ crashed' = TRUE
                    /\ UNCHANGED <<blocks, th, loaned, quota, pstate, granted, recov, freed, last>>
               ELSE /\ Goto(t, [th[t] EXCEPT !.pc = "ab_check"])
                    /\ UNCHANGED <<blocks, crashed>>

(***************************************************************************)
(* realloc(array, n entries): the array with n entries, the old entries    *)
(* kept and the new ones indeterminate.  realloc(NULL, ...) is malloc.     *)
(***************************************************************************)
Indeterminate == -1
ReallocArray(arr, isNull, n) ==
    [k \in 1..n |-> IF ~isNull /\ k <= Len(arr) THEN arr[k] ELSE Indeterminate]

(***************************************************************************)
(* mpool_realloc, up to its call of _partition_blob.  The caller runs one  *)
(* mpool_realloc at a time.                                                *)
(***************************************************************************)
\* the size check with > for >=
InvalidReallocSize_Strict(capacity, new_capacity) == capacity > new_capacity

InvalidReallocSize(capacity, new_capacity) == capacity >= new_capacity

\* a blob for the whole new capacity, not for the blocks added
NewBlobSize_Whole(capacity, new_capacity, block_size) == new_capacity * block_size

NewBlobSize(capacity, new_capacity, block_size) == (new_capacity - capacity) * block_size

FinishRealloc(t, new_capacity, e) ==
    Goto(t, [IdleThread EXCEPT !.op = "realloc", !.pc = "ret", !.err = e,
                               !.new_capacity = new_capacity])

mpool_realloc(t) ==
    /\ MayCall(t)
    /\ \A u \in Threads : th[u].op # "realloc"
    /\ UNCHANGED <<blocks, crashed>>
    /\ \E new_capacity \in NewCaps, poolArg \in BOOLEAN :
       \E okBlobs \in MallocResults, okBlob \in MallocResults, okSizes \in MallocResults :
          /\ Begin("realloc", poolArg)
          /\ env' = IF ~poolArg \/ InvalidReallocSize(pool.capacity, new_capacity)
                          \/ (okBlobs /\ okBlob /\ okSizes)
                    THEN Called(env)
                    ELSE [Called(env) EXCEPT !.faults = @ - 1, !.alloc_failed = TRUE]
          /\ IF ~poolArg
             THEN /\ Goto(t, [IdleThread EXCEPT !.op = "realloc", !.pc = "ret",
                                                !.err = MPOOL_ERR_NULL_ARG,
                                                !.new_capacity = new_capacity,
                                                !.pool_null = TRUE])
                  /\ UNCHANGED <<pool, brk>>
             ELSE IF InvalidReallocSize(pool.capacity, new_capacity)
             THEN /\ FinishRealloc(t, new_capacity, MPOOL_ERR_INVALID_REALLOC_SIZE)
                  /\ UNCHANGED <<pool, brk>>
             ELSE LET new_size == NewBlobSize(pool.capacity, new_capacity, pool.block_size)
                      index == pool.alloc_count
                      p1 == [pool EXCEPT !.alloc_count = @ + 1,
                                         !.capacity = new_capacity]
                      blobs1 == ReallocArray(pool.blobs, pool.blobs_null, index + 1)
                      sizes1 == ReallocArray(pool.blob_sizes, pool.blob_sizes_null, index + 1)
                  IN
                  IF ~okBlobs
                  THEN /\ pool' = [p1 EXCEPT !.blobs = << >>, !.blobs_null = TRUE]
                       /\ FinishRealloc(t, new_capacity, MPOOL_ERR_ALLOC)
                       /\ UNCHANGED brk
                  ELSE IF ~okBlob
                  THEN /\ pool' = [p1 EXCEPT !.blobs = [blobs1 EXCEPT ![index + 1] = NULL],
                                             !.blobs_null = FALSE]
                       /\ FinishRealloc(t, new_capacity, MPOOL_ERR_ALLOC)
                       /\ UNCHANGED brk
                  ELSE IF ~okSizes
                  THEN /\ pool' = [p1 EXCEPT !.blobs = [blobs1 EXCEPT ![index + 1] = brk],
                                             !.blobs_null = FALSE,
                                             !.blob_sizes = << >>,
                                             !.blob_sizes_null = TRUE]
                       /\ brk' = MallocBrk(new_size)
                       /\ FinishRealloc(t, new_capacity, MPOOL_ERR_ALLOC)
                  ELSE /\ pool' = [p1 EXCEPT !.blobs = [blobs1 EXCEPT ![index + 1] = brk],
                                             !.blobs_null = FALSE,
                                             !.blob_sizes = [sizes1 EXCEPT ![index + 1] = new_size],
                                             !.blob_sizes_null = FALSE]
                       /\ brk' = MallocBrk(new_size)
                       /\ Goto(t, [IdleThread EXCEPT !.op = "realloc", !.pc = "pb_loop",
                                                     !.new_capacity = new_capacity,
                                                     !.index = index, !.i = 0])

(***************************************************************************)
(* mpool_capacity: -1 for a NULL pool, pool->capacity otherwise.           *)
(***************************************************************************)
CapacityResult(poolArg) == IF poolArg THEN pool.capacity ELSE -1

mpool_capacity(t) ==
    /\ MayCall(t)
    /\ UNCHANGED <<pool, blocks, brk, crashed>>
    /\ env' = Called(env)
    /\ \E poolArg \in BOOLEAN :
          /\ Begin("capacity", FALSE)
          /\ Goto(t, [IdleThread EXCEPT !.op = "capacity", !.pc = "ret",
                                        !.val = CapacityResult(poolArg),
                                        !.pool_null = ~poolArg])

(***************************************************************************)
(* free_mpool, called by the main thread when no call is running: the      *)
(* descriptors of the free list, then those of the unused list, then each  *)
(* blob, the blob table, the size table and the pool.  free(NULL) does     *)
(* nothing.  Reading blobs[i] through a NULL table, or freeing an entry    *)
(* that was never set, is undefined behaviour: the process dies, or goes   *)
(* on with whatever it read.                                               *)
(***************************************************************************)
FreeBlocks(head, blks) ==
    [k \in 1..Len(ListOf(head, blks)) |-> [kind |-> "block", id |-> ListOf(head, blks)[k]]]

RECURSIVE FreeBlobs(_, _, _)
FreeBlobs(blobs, isNull, n) ==
    IF n = 0 THEN << >>
    ELSE LET ptr == IF isNull \/ n > Len(blobs) THEN Indeterminate ELSE blobs[n]
         IN  FreeBlobs(blobs, isNull, n - 1)
             \o (IF ptr = NULL THEN << >> ELSE << [kind |-> "blob", id |-> ptr] >>)

FreeTables(p) ==
    (IF p.blobs_null THEN << >> ELSE << [kind |-> "blobs", id |-> 0] >>)
    \o (IF p.blob_sizes_null THEN << >> ELSE << [kind |-> "blob_sizes", id |-> 0] >>)
    \o << [kind |-> "pool", id |-> 0] >>

WildFree(p) ==
    \E k \in 1..Len(FreeBlobs(p.blobs, p.blobs_null, p.alloc_count)) :
        FreeBlobs(p.blobs, p.blobs_null, p.alloc_count)[k].id = Indeterminate

WildFreeOutcomes == {"crash", "lost"}

free_mpool(t) ==
    /\ ~crashed /\ pstate = "ready" /\ Quiescent /\ t = 1
    /\ UNCHANGED <<pool, blocks, brk, env, loaned, quota, granted, recov, last>>
    /\ \E poolArg \in BOOLEAN, outcome \in WildFreeOutcomes :
          /\ Begin("free", FALSE)
          /\ pstate' = IF poolArg THEN "freed" ELSE pstate
          /\ IF ~poolArg
             THEN /\ th' = [th EXCEPT ![t] = [IdleThread EXCEPT
                                !.op = "free", !.pc = "ret",
                                !.err = MPOOL_ERR_NULL_ARG, !.pool_null = TRUE]]
                  /\ UNCHANGED <<crashed, freed>>
             ELSE IF WildFree(pool) /\ outcome = "crash"
             THEN /\ crashed' = TRUE
                  /\ freed' = FreeBlocks(pool.block_list, blocks)
                              \o FreeBlocks(pool.unused_blocks, blocks)
                  /\ UNCHANGED th
             ELSE /\ freed' = FreeBlocks(pool.block_list, blocks)
                              \o FreeBlocks(pool.unused_blocks, blocks)
                              \o FreeBlobs(pool.blobs, pool.blobs_null, pool.alloc_count)
                              \o FreeTables(pool)
                  /\ th' = [th EXCEPT ![t] = [IdleThread EXCEPT
                                !.op = "free", !.pc = "ret", !.err = MPOOL_SUCCESS]]
                  /\ UNCHANGED crashed

(***************************************************************************)
(* The initial state: nothing constructed yet; the environment is chosen.  *)
(***************************************************************************)
InitWith(e) ==
    /\ pool = ZeroPool
    /\ blocks = << >>
    /\ brk = 1
    /\ pstate = "uninit"
    /\ crashed = FALSE
    /\ th = [t \in Threads |-> IdleThread]
    /\ env = e
    /\ loaned = << >>
    /\ pre = NoPre
    /\ quota = NoQuota
    /\ onlyAllocs = TRUE
    /\ granted = 0
    /\ recov = "none"
    /\ last = NoLast
    /\ freed = << >>

\* one caller, loan discipline kept, no allocator or mutex failures
Init == InitWith([seq |-> TRUE, rogue |-> 0, faults |-> 0, calls |-> -1,
                  zero |-> FALSE, alloc_failed |-> FALSE])
\* concurrent callers, starting MaxCalls calls in all
InitMT == InitWith([seq |-> FALSE, rogue |-> 0, faults |-> 0, calls |-> MaxCalls,
                    zero |-> FALSE, alloc_failed |-> FALSE])
\* one caller that may release any address, MaxRogue times
InitAny == InitWith([seq |-> TRUE, rogue |-> MaxRogue, faults |-> 0, calls |-> -1,
                     zero |-> FALSE, alloc_failed |-> FALSE])
\* one caller, with MaxFaults malloc, realloc and mutex calls that fail
InitFault == InitWith([seq |-> TRUE, rogue |-> 0, faults |-> MaxFaults, calls |-> -1,
                       zero |-> FALSE, alloc_failed |-> FALSE])
\* one caller, loan discipline kept, any block size
InitZero == InitWith([seq |-> TRUE, rogue |-> 0, faults |-> 0, calls |-> -1,
                      zero |-> TRUE, alloc_failed |-> FALSE])

Next ==
    \E t \in Threads :
        \/ init_mpool(t)
        \/ partition_blob(t)
        \/ add_block_check(t)
        \/ add_block_lock(t)
        \/ add_block_unlock(t)
        \/ add_block_inc_read(t)
        \/ add_block_inc_write(t)
        \/ mpool_alloc(t)
        \/ remove_block_lock(t)
        \/ remove_block_unlock(t)
        \/ remove_block_dec_read(t)
        \/ remove_block_dec_write(t)
        \/ add_to_unused_list_lock(t)
        \/ add_to_unused_list_unlock(t)
        \/ add_to_unused_list_inc_read(t)
        \/ add_to_unused_list_inc_write(t)
        \/ mpool_dealloc(t)
        \/ remove_from_unused_list_lock(t)
        \/ remove_from_unused_list_unlock(t)
        \/ remove_from_unused_list_dec_read(t)
        \/ remove_from_unused_list_dec_write(t)
        \/ mpool_dealloc_store(t)
        \/ mpool_realloc(t)
        \/ mpool_capacity(t)
        \/ free_mpool(t)
        \/ return_to_caller(t)

Spec == Init /\ [][Next]_vars
SpecMT == InitMT /\ [][Next]_vars
SpecAny == InitAny /\ [][Next]_vars
SpecFault == InitFault /\ [][Next]_vars
SpecZero == InitZero /\ [][Next]_vars


(***************************************************************************)
(* Vocabulary of the properties below.                                     *)
(***************************************************************************)
\* thread t is back from a call of op made with non-NULL arguments
Returned(t, op) ==
    th[t].pc = "ret" /\ th[t].op = op /\ th[t].err # MPOOL_ERR_NULL_ARG
Succeeded(t, op) == Returned(t, op) /\ th[t].err = MPOOL_SUCCESS
\* the threads whose mpool_alloc has taken a descriptor off the free list
AllocsTaken ==
    {u \in Threads : th[u].op = "alloc" /\ (th[u].b # NULL \/ Succeeded(u, "alloc"))}
\* both lists hold the descriptors and addresses they held when the call began
ListsUnchanged ==
    /\ ListOf(pool.block_list, blocks) = ListOf(pre.pool.block_list, pre.blocks)
    /\ AddrsOf(pool.block_list, blocks) = AddrsOf(pre.pool.block_list, pre.blocks)
    /\ ListOf(pool.unused_blocks, blocks) = ListOf(pre.pool.unused_blocks, pre.blocks)
Distinct(s) == \A j, k \in 1..Len(s) : j # k => s[j] # s[k]

(***************************************************************************)
(* C1: with one caller that releases only addresses it holds, no address   *)
(* is on loan twice, and an address mpool_alloc returns with success is    *)
(* not among the addresses on loan.                                        *)
(***************************************************************************)
C1_NoAddressLoanedTwice ==
    /\ \A a \in DOMAIN loaned : loaned[a] = 1
    /\ \A t \in Threads : Succeeded(t, "alloc") =>
          th[t].val # NULL /\ th[t].val \notin DOMAIN loaned

\* an alloc succeeds after a release and a grow, with another loan out
C1_Witness ==
    \E t \in Threads :
        /\ Succeeded(t, "alloc")
        /\ NumLoans >= 1
        /\ ~onlyAllocs
        /\ pool.alloc_count >= 2

(***************************************************************************)
(* C2: concurrent callers that only allocate: as long as no release and    *)
(* no grow was started, an mpool_alloc fails only with the empty-list      *)
(* error and only after `capacity` calls took a descriptor, so the first   *)
(* `capacity` calls all succeed; and the addresses returned are pairwise   *)
(* distinct.                                                               *)
(***************************************************************************)
C2_ConcurrentAllocsDistinct ==
    onlyAllocs =>
        /\ \A a \in DOMAIN loaned : loaned[a] = 1
        /\ \A t \in Threads : Succeeded(t, "alloc") =>
              /\ th[t].val # NULL /\ th[t].val \notin DOMAIN loaned
              /\ \A u \in Threads \ {t} : Succeeded(u, "alloc") => th[u].val # th[t].val
        /\ \A t \in Threads : (Returned(t, "alloc") /\ th[t].err # MPOOL_SUCCESS) =>
              /\ th[t].err = MPOOL_EMPTY_LIST
              /\ NumLoans + Cardinality(AllocsTaken) = pool.capacity

\* two concurrent calls have both returned an address, and the pool is empty
C2_Witness ==
    /\ onlyAllocs
    /\ Cardinality({t \in Threads : Succeeded(t, "alloc")}) >= 2
    /\ pool.block_list = NULL

(***************************************************************************)
(* C3: after init and exactly `capacity` successful allocs with no release *)
(* or grow between, the next mpool_alloc returns NULL with the empty-list  *)
(* error and leaves both lists as they were.                               *)
(***************************************************************************)
C3_EmptyAfterCapacityAllocs ==
    \A t \in Threads :
        (Returned(t, "alloc") /\ quota.kind = "init" /\ quota.n = quota.target) =>
            /\ th[t].err = MPOOL_EMPTY_LIST
            /\ th[t].val = NULL
            /\ ListsUnchanged

C3_Witness ==
    \E t \in Threads :
        /\ Returned(t, "alloc") /\ th[t].err = MPOOL_EMPTY_LIST
        /\ quota.kind = "init" /\ quota.n = quota.target /\ quota.target >= 2

(***************************************************************************)
(* C4: mpool_dealloc of a non-NULL address, called when the unused list    *)
(* is empty, returns the full-list error as a value and leaves the pool    *)
(* as it was.                                                              *)
(***************************************************************************)
C4_FullPoolReported ==
    \A t \in Threads :
        (th[t].op = "dealloc" /\ th[t].pc # "idle" /\ th[t].err # MPOOL_ERR_NULL_ARG
            /\ pre.pool.unused_blocks = NULL) =>
            /\ ~crashed
            /\ th[t].pc = "ret" =>
                  /\ th[t].err = MPOOL_FULL_LIST
                  /\ pool = pre.pool /\ blocks = pre.blocks

(***************************************************************************)
(* C5: under every interleaving of callers that release only addresses     *)
(* on loan, mpool_dealloc never returns the full-list error.  Stated for   *)
(* the runs of mpool_alloc and mpool_dealloc calls alone, on a pool that   *)
(* was never grown.                                                        *)
(***************************************************************************)
C5_NoFullPoolUnderDiscipline ==
    \A t \in Threads :
        (Returned(t, "dealloc") /\ pool.alloc_count = 1) =>
            th[t].err # MPOOL_FULL_LIST

C7_InvalidReallocSize ==
    \A t \in Threads :
        (Returned(t, "realloc") /\ th[t].new_capacity <= pre.pool.capacity) =>
            /\ th[t].err = MPOOL_ERR_INVALID_REALLOC_SIZE
            /\ pool.capacity = pre.pool.capacity
            /\ pool.alloc_count = pre.pool.alloc_count
            /\ pool.blobs = pre.pool.blobs
            /\ pool.blob_sizes = pre.pool.blob_sizes
            /\ ListsUnchanged

\* a grow to the capacity the pool has, with a block on loan
C7_Witness ==
    \E t \in Threads :
        /\ Returned(t, "realloc")
        /\ th[t].new_capacity = pre.pool.capacity
        /\ pre.pool.capacity >= 2
        /\ NumLoans >= 1

C9_NullOnError ==
    \A t \in Threads :
        (th[t].pc = "ret" /\ th[t].op = "alloc" /\ th[t].err # MPOOL_SUCCESS) =>
            th[t].val = NULL

\* realloc of the blob table or of the size table, or malloc of the new
\* blob, returned NULL
BlobAllocFailed ==
    \/ pool.blobs_null
    \/ pool.blob_sizes_null
    \/ (Len(pool.blobs) > 0 /\ pool.blobs[Len(pool.blobs)] = NULL)

(***************************************************************************)
(* C10: when allocating the new blob, or resizing the blob table or the    *)
(* size table, fails in mpool_realloc, the call returns MPOOL_ERR_ALLOC    *)
(* and capacity, alloc_count, the blob table and the free list are as      *)
(* before the call, so that capacity is still the number of descriptors.   *)
(***************************************************************************)
C10_GrowFailureRollsBack ==
    \A t \in Threads :
        (th[t].pc = "ret" /\ th[t].op = "realloc" /\ BlobAllocFailed) =>
            /\ th[t].err = MPOOL_ERR_ALLOC
            /\ pool.capacity = pre.pool.capacity
            /\ pool.alloc_count = pre.pool.alloc_count
            /\ pool.blobs = pre.pool.blobs
            /\ pool.blob_sizes = pre.pool.blob_sizes
            /\ ListsUnchanged
            /\ pool.capacity = Len(FreeList) + Len(UnusedList)

(***************************************************************************)
(* C11: the capacity never decreases: mpool_capacity returns the value     *)
(* given to init_mpool or to the last mpool_realloc that succeeded, a      *)
(* successful mpool_realloc makes it the larger value it was given, and    *)
(* mpool_alloc and mpool_dealloc leave it as it was.                       *)
(***************************************************************************)
C11_CapacityMonotone ==
    \A t \in Threads :
        /\ (Returned(t, "capacity") /\ ~th[t].pool_null) => th[t].val = granted
        /\ Succeeded(t, "realloc") =>
              /\ pool.capacity = th[t].new_capacity
              /\ th[t].new_capacity > pre.pool.capacity
        /\ (th[t].op \in {"alloc", "dealloc"} /\ th[t].pc # "idle") =>
              pool.capacity = pre.pool.capacity
        /\ (th[t].op \in {"realloc", "capacity"} /\ th[t].pc # "idle") =>
              pool.capacity >= pre.pool.capacity

(***************************************************************************)
(* C12: free_mpool, called when no call is running, frees every blob of    *)
(* the blob table once and every descriptor once, on whichever list it is  *)
(* and with its block still on loan or not: as many descriptors as the     *)
(* capacity, nothing twice, nothing left.                                  *)
(***************************************************************************)
C12_FreeEverythingOnce ==
    \A t \in Threads :
        Succeeded(t, "free") =>
            /\ Distinct(freed)
            /\ \A d \in 1..Len(blocks) :
                  \E k \in 1..Len(freed) : freed[k] = [kind |-> "block", id |-> d]
            /\ \A i \in 1..pool.alloc_count :
                  \E k \in 1..Len(freed) : freed[k] = [kind |-> "blob", id |-> pool.blobs[i]]
            /\ Cardinality({k \in 1..Len(freed) : freed[k].kind = "block"}) = pool.capacity

(***************************************************************************)
(* C13: after a successful init_mpool(block_size, capacity) the unused     *)
(* list is empty and the free list holds `capacity` descriptors, with the  *)
(* addresses blobs[0] + i * block_size for i in 0..capacity-1, pairwise    *)
(* distinct and block_size apart or more; exactly `capacity` allocs then   *)
(* succeed.                                                                *)
(***************************************************************************)
C13_InitPartitions ==
    \A t \in Threads :
        /\ Succeeded(t, "init") =>
              /\ pool.unused_blocks = NULL
              /\ Len(FreeList) = pool.capacity
              /\ Range(FreeAddrs) =
                    {pool.blobs[1] + i * pool.block_size : i \in 0..(pool.capacity - 1)}
              /\ Distinct(FreeAddrs)
              /\ \A j, k \in 1..Len(FreeAddrs) :
                    (j # k /\ FreeAddrs[j] >= FreeAddrs[k]) =>
                        FreeAddrs[j] - FreeAddrs[k] >= pool.block_size
        /\ (Returned(t, "alloc") /\ quota.kind = "init") =>
              ((th[t].err = MPOOL_SUCCESS) <=> (quota.n < quota.target))

(***************************************************************************)
(* C14: a public operation given a NULL argument it needs reports it and   *)
(* changes nothing: mpool_alloc gives NULL with MPOOL_ERR_NULL_ARG,        *)
(* mpool_dealloc (NULL item or NULL pool), mpool_realloc and free_mpool    *)
(* return MPOOL_ERR_NULL_ARG, mpool_capacity returns -1; the pool and the  *)
(* descriptors are as before the call and nothing was freed.               *)
(***************************************************************************)
C14_NullArgReported ==
    \A t \in Threads :
        (th[t].pc = "ret" /\ (th[t].pool_null \/ (th[t].op = "dealloc" /\ th[t].item = NULL))) =>
            /\ IF th[t].op = "capacity"
               THEN th[t].val = -1
               ELSE th[t].err = MPOOL_ERR_NULL_ARG /\ th[t].val = NULL
            /\ pool = pre.pool
            /\ blocks = pre.blocks
            /\ freed = << >>
            /\ pstate = "ready"

\* mpool_dealloc(NULL, pool) has returned, with a descriptor on the unused list
C14_Witness ==
    \E t \in Threads :
        /\ th[t].pc = "ret" /\ th[t].op = "dealloc"
        /\ th[t].item = NULL /\ ~th[t].pool_null
        /\ pool.unused_blocks # NULL

C16_AnyAddressAccepted ==
    \A t \in Threads :
        /\ (Returned(t, "dealloc") /\ pre.pool.unused_blocks # NULL) =>
              /\ th[t].err = MPOOL_SUCCESS
              /\ pool.block_list # NULL
              /\ blocks[pool.block_list].addr = th[t].item
        /\ Succeeded(t, "alloc") =>
              th[t].val = pre.blocks[pre.pool.block_list].addr

\* an alloc has returned an address that is already on loan
C16_Witness ==
    \E t \in Threads :
        /\ Succeeded(t, "alloc")
        /\ th[t].val \in DOMAIN loaned

(***************************************************************************)
(* C17: when calloc or malloc fails in init_mpool (the pool, the blob      *)
(* table, the first blob, the size table or a descriptor), init_mpool      *)
(* returns MPOOL_ERR_ALLOC: the process does not die, and no other code    *)
(* is returned.                                                            *)
(***************************************************************************)
C17_InitAllocFailureReported ==
    (pstate \in {"uninit", "init"} /\ env.alloc_failed) =>
        /\ ~crashed
        /\ \A t \in Threads :
              (th[t].pc = "ret" /\ th[t].op = "init") => th[t].err = MPOOL_ERR_ALLOC

(***************************************************************************)
(* C18: in safe mode, mpool_dealloc of an address that is not on loan is   *)
(* rejected with an error and leaves the pool as it was.  The code has no  *)
(* set_safe_mode and no error code for an invalid address, so this is      *)
(* stated of every mpool_dealloc: it returns a code that is not            *)
(* MPOOL_SUCCESS and changes nothing.                                      *)
(***************************************************************************)
C18_SafeModeRejects ==
    \A t \in Threads :
        (Returned(t, "dealloc") /\ th[t].item \notin DOMAIN loaned) =>
            /\ th[t].err # MPOOL_SUCCESS
            /\ pool = pre.pool
            /\ blocks = pre.blocks

(***************************************************************************)
(* C19: whenever no call is running on a pool that init_mpool set up with  *)
(* success, the descriptors of the free list and of the unused list are    *)
(* as many as the capacity, and they are all the descriptors ever made.    *)
(***************************************************************************)
C19_DescriptorsEqualCapacity ==
    (Quiescent /\ pstate = "ready" /\ ~crashed) =>
        /\ Len(FreeList) + Len(UnusedList) = pool.capacity
        /\ Range(FreeList) \cup Range(UnusedList) = 1..Len(blocks)

(***************************************************************************)
(* C20: under every interleaving of concurrent mpool_alloc and             *)
(* mpool_dealloc calls each descriptor is in exactly one place: once on    *)
(* the free list, or once on the unused list, or held by one running       *)
(* call between its pop and its push.  Stated for the runs of mpool_alloc  *)
(* and mpool_dealloc calls alone, on a pool that was never grown.          *)
(***************************************************************************)
\* the call of thread t holds a descriptor that is on no list
InTransit(t) ==
    /\ th[t].b # NULL
    /\ th[t].pc \in {"rb_unlock", "rb_dec_rd", "rb_dec_wr", "au_lock",
                     "ru_unlock", "ru_dec_rd", "ru_dec_wr", "de_store",
                     "ab_check", "ab_lock"}

Places(d) ==
    Cardinality({k \in 1..Len(FreeList) : FreeList[k] = d})
    + Cardinality({k \in 1..Len(UnusedList) : UnusedList[k] = d})
    + Cardinality({t \in Threads : InTransit(t) /\ th[t].b = d})

C20_DescriptorInOnePlace ==
    pool.alloc_count = 1 => \A d \in 1..Len(blocks) : Places(d) = 1

(***************************************************************************)
(* C21: the two counters are read and written with the mutex of their      *)
(* list held, so that under every interleaving of mpool_alloc and          *)
(* mpool_dealloc calls, whenever no call is running, block_list_size is    *)
(* the length of the free list and unused_block_list_size the length of    *)
(* the unused list.  Stated for a pool that was never grown.               *)
(***************************************************************************)
C21_CountersMirrorLists ==
    (Quiescent /\ pstate = "ready" /\ pool.alloc_count = 1) =>
        /\ pool.block_list_size = Len(FreeList)
        /\ pool.unused_block_list_size = Len(UnusedList)

\* the mutexes thread t holds
Held(t) ==
    (IF pool.block_list_mutex = t THEN {"block_list_mutex"} ELSE {})
    \cup (IF pool.unused_block_list_mutex = t THEN {"unused_block_list_mutex"} ELSE {})

Run(t) ==
    \/ partition_blob(t)
    \/ add_block_check(t)
    \/ add_block_lock(t)
    \/ add_block_unlock(t)
    \/ add_block_inc_read(t)
    \/ add_block_inc_write(t)
    \/ remove_block_lock(t)
    \/ remove_block_unlock(t)
    \/ remove_block_dec_read(t)
    \/ remove_block_dec_write(t)
    \/ add_to_unused_list_lock(t)
    \/ add_to_unused_list_unlock(t)
    \/ add_to_unused_list_inc_read(t)
    \/ add_to_unused_list_inc_write(t)
    \/ remove_from_unused_list_lock(t)
    \/ remove_from_unused_list_unlock(t)
    \/ remove_from_unused_list_dec_read(t)
    \/ remove_from_unused_list_dec_write(t)
    \/ mpool_dealloc_store(t)
    \/ return_to_caller(t)

\* concurrent callers under weak fairness of each thread
SpecMTFair == SpecMT /\ \A t \in Threads : WF_vars(Run(t))

(***************************************************************************)
(* C23: under weak fairness of the threads every mpool_alloc,              *)
(* mpool_dealloc and mpool_realloc call that was started returns: no       *)
(* thread stays inside a call for ever, blocked on a list mutex or         *)
(* otherwise.                                                              *)
(***************************************************************************)
C23_EveryCallReturns ==
    \A t \in Threads :
        (th[t].op \in {"alloc", "dealloc", "realloc"} /\ th[t].pc \notin {"idle", "ret"})
            ~> (th[t].pc = "ret")

(***************************************************************************)
(* C24: when malloc of a descriptor fails in _partition_blob during        *)
(* mpool_realloc (the new blob and the tables were allocated), the call    *)
(* returns MPOOL_ERR_ALLOC and is rolled back: capacity, alloc_count, the  *)
(* blob table and the free list are as before the call, and capacity does  *)
(* not exceed the number of descriptors.                                   *)
(***************************************************************************)
C24_PartialGrowRollsBack ==
    \A t \in Threads :
        (th[t].pc = "ret" /\ th[t].op = "realloc" /\ th[t].err = MPOOL_ERR_ALLOC
            /\ ~BlobAllocFailed) =>
            /\ pool.capacity = pre.pool.capacity
            /\ pool.alloc_count = pre.pool.alloc_count
            /\ pool.blobs = pre.pool.blobs
            /\ pool.blob_sizes = pre.pool.blob_sizes
            /\ ListsUnchanged
            /\ pool.capacity <= Len(FreeList) + Len(UnusedList)

\* where a thread is when it calls MUTEX_LOCK or MUTEX_UNLOCK
MutexPcs == {"ab_lock", "ab_unlock", "rb_lock", "rb_unlock",
             "au_lock", "au_unlock", "ru_lock", "ru_unlock"}

\* the step of thread t is a MUTEX_LOCK or MUTEX_UNLOCK call that fails
MutexCallFails(t) ==
    /\ th[t].pc \in MutexPcs
    /\ th'[t] # th[t]
    /\ env'.faults < env.faults

(***************************************************************************)
(* C25: when a MUTEX_LOCK or MUTEX_UNLOCK call fails inside mpool_alloc,   *)
(* mpool_dealloc or the partition step of mpool_realloc, the public call   *)
(* returns with that very step and its error code is MPOOL_ERR_MUTEX,      *)
(* not MPOOL_SUCCESS and not another code.                                 *)
(***************************************************************************)
C25_MutexFailureReported ==
    [][\A t \in Threads :
          MutexCallFails(t) =>
              /\ th'[t].pc = "ret"
              /\ th'[t].op = th[t].op
              /\ th'[t].err = MPOOL_ERR_MUTEX]_vars

\* mpool_alloc has returned MPOOL_ERR_MUTEX after it took a descriptor off
\* the free list: the lock of the unused list failed
C25_Witness ==
    \E t \in Threads :
        /\ th[t].pc = "ret" /\ th[t].op = "alloc"
        /\ th[t].err = MPOOL_ERR_MUTEX
        /\ Len(FreeList) < Len(ListOf(pre.pool.block_list, pre.blocks))

\* the block addresses _partition_blob makes of the blobs of pool p: every
\* block_size-th address of each blob
PartitionAddrs(p) ==
    UNION { { p.blobs[k] + i : i \in {j \in 0..(p.blob_sizes[k] - 1) : j % p.block_size = 0} }
            : k \in 1..Len(p.blobs) }

C27_GrowUnderConcurrency ==
    pool.alloc_count = 2 =>
        /\ \A t \in Threads :
              (Returned(t, "realloc") /\ th[t].err # MPOOL_ERR_INVALID_REALLOC_SIZE) =>
                  th[t].err = MPOOL_SUCCESS
        /\ \A a \in DOMAIN loaned : loaned[a] - Releasing(a) <= 1
        /\ (Quiescent /\ pstate = "ready") =>
              Len(FreeList) + Len(UnusedList) = pool.capacity

\* the descriptors whose address is not the one they held when the call began
AddrChanged ==
    {d \in 1..Len(blocks) : d > Len(pre.blocks) \/ blocks[d].addr # pre.blocks[d].addr}

(***************************************************************************)
(* C28: mpool_alloc and mpool_dealloc move descriptors and nothing else:   *)
(* at no point of either call do block_size, capacity, alloc_count, the    *)
(* blob table or the blob sizes differ from what they were when the call   *)
(* began, and no descriptor is made; mpool_alloc changes the address of    *)
(* no descriptor, and mpool_dealloc that of the one descriptor it moves    *)
(* from the unused list to the free list, which then holds the address     *)
(* released, and of no other.                                              *)
(***************************************************************************)
C28_AllocDeallocFrame ==
    \A t \in Threads :
        (th[t].op \in {"alloc", "dealloc"} /\ th[t].pc # "idle") =>
            /\ pool.block_size = pre.pool.block_size
            /\ pool.capacity = pre.pool.capacity
            /\ pool.alloc_count = pre.pool.alloc_count
            /\ pool.blobs = pre.pool.blobs
            /\ pool.blob_sizes = pre.pool.blob_sizes
            /\ Len(blocks) = Len(pre.blocks)
            /\ th[t].op = "alloc" => AddrChanged = {}
            /\ th[t].op = "dealloc" => AddrChanged \subseteq {pre.pool.unused_blocks}
            /\ Succeeded(t, "dealloc") =>
                  /\ pool.block_list = pre.pool.unused_blocks
                  /\ blocks[pool.block_list].addr = th[t].item

\* a release has returned that changed the address of the descriptor it
\* moved, in a pool of two descriptors or more
C28_Witness ==
    \E t \in Threads :
        /\ Succeeded(t, "dealloc")
        /\ AddrChanged = {pool.block_list}
        /\ Len(blocks) >= 2

RECURSIVE SumSeq(_)
SumSeq(s) == IF Len(s) = 0 THEN 0 ELSE s[1] + SumSeq(Tail(s))

(***************************************************************************)
(* C29: in a pool made by a successful init_mpool and grown by             *)
(* mpool_realloc calls, alloc_count is the number of blobs and of blob     *)
(* sizes, the blob sizes add up to capacity * block_size, no call changes  *)
(* or removes an entry the blob table had when it began, init_mpool        *)
(* leaves one blob of block_size * capacity bytes, and a successful        *)
(* mpool_realloc appends one blob whose size is block_size times the       *)
(* number of blocks added, which is the number of descriptors it made.     *)
(***************************************************************************)
C29_BlobTableConsistent ==
    (pstate = "ready" \/ \E t \in Threads : Succeeded(t, "init")) =>
        /\ pool.alloc_count = Len(pool.blobs)
        /\ pool.alloc_count = Len(pool.blob_sizes)
        /\ SumSeq(pool.blob_sizes) = pool.capacity * pool.block_size
        /\ \A t \in Threads :
              /\ th[t].pc # "idle" =>
                    /\ Len(pool.blobs) >= Len(pre.pool.blobs)
                    /\ \A k \in 1..Len(pre.pool.blobs) :
                          /\ pool.blobs[k] = pre.pool.blobs[k]
                          /\ pool.blob_sizes[k] = pre.pool.blob_sizes[k]
              /\ Succeeded(t, "init") =>
                    pool.blob_sizes = << pool.block_size * th[t].new_capacity >>
              /\ Succeeded(t, "realloc") =>
                    /\ Len(pool.blobs) = Len(pre.pool.blobs) + 1
                    /\ pool.blob_sizes[Len(pool.blobs)] =
                          pool.block_size * (th[t].new_capacity - pre.pool.capacity)
                    /\ pool.blob_sizes[Len(pool.blobs)] =
                          pool.block_size * (Len(blocks) - Len(pre.blocks))
                    /\ \A k \in 1..Len(pre.pool.blobs) :
                          pool.blobs[k] # pool.blobs[Len(pool.blobs)]

\* a third blob or a later one was appended, of blocks of two bytes, with a
\* block on loan
C29_Witness ==
    \E t \in Threads :
        /\ Succeeded(t, "realloc")
        /\ pre.pool.alloc_count >= 2
        /\ pool.block_size = 2
        /\ NumLoans >= 1

\* every descriptor made is on one of the two lists of pool p with nodes
\* blks, and they are as many as the capacity
Intact(p, blks) ==
    /\ Len(ListOf(p.block_list, blks)) + Len(ListOf(p.unused_blocks, blks)) = p.capacity
    /\ Range(ListOf(p.block_list, blks)) \cup Range(ListOf(p.unused_blocks, blks))
          = 1..Len(blks)

(***************************************************************************)
(* C30: a call on a pool that returns an error code for an empty pool, a   *)
(* full pool, a NULL argument or a failed mutex call leaves the            *)
(* descriptors as they should be: if they were all on the two lists and    *)
(* as many as the capacity before the call, they are after it.             *)
(***************************************************************************)
C30_ErrorsKeepDescriptors ==
    \A t \in Threads :
        (/\ th[t].pc = "ret"
         /\ th[t].op \in {"alloc", "dealloc", "realloc", "free"}
         /\ th[t].err \in {MPOOL_EMPTY_LIST, MPOOL_FULL_LIST,
                           MPOOL_ERR_NULL_ARG, MPOOL_ERR_MUTEX}
         /\ Intact(pre.pool, pre.blocks)) =>
            Intact(pool, blocks)

\* the address of the last block _partition_blob makes of the newest blob
TopOfNewestBlob ==
    pool.blobs[Len(pool.blobs)] + pool.blob_sizes[Len(pool.blobs)] - pool.block_size

(***************************************************************************)
(* C31: the free list is last in, first out.  With one caller, an          *)
(* mpool_alloc that succeeds returns the address at the head of the free   *)
(* list; called right after a successful mpool_dealloc(x) it returns x;    *)
(* and the first one after init_mpool or after a grow returns the block    *)
(* at the highest offset of the newest blob.                               *)
(***************************************************************************)
C31_FreeListLifo ==
    \A t \in Threads :
        /\ Succeeded(t, "alloc") =>
              th[t].val = pre.blocks[pre.pool.block_list].addr
        /\ (Returned(t, "alloc") /\ last.op = "dealloc") =>
              th[t].err = MPOOL_SUCCESS /\ th[t].val = last.addr
        /\ (Succeeded(t, "alloc") /\ quota.kind \in {"init", "grow"} /\ quota.n = 0) =>
              th[t].val = TopOfNewestBlob

\* a block that was not the last one handed out is released, and the alloc
\* that follows returns it
C31_Witness ==
    \E t \in Threads :
        /\ Succeeded(t, "alloc")
        /\ last.op = "dealloc"
        /\ th[t].val = last.addr
        /\ \E a \in DOMAIN loaned : a > th[t].val
        /\ \E a \in DOMAIN loaned : a < th[t].val

(***************************************************************************)
(* C32: round trip.  With one caller, a successful mpool_alloc that        *)
(* returned x, followed at once by mpool_dealloc(x), puts the pool back    *)
(* as it was before the alloc: the release succeeds, and the addresses on  *)
(* the free list in their order, the unused list, the two counters and     *)
(* the capacity are the same.                                              *)
(***************************************************************************)
C32_AllocDeallocRoundTrip ==
    \A t \in Threads :
        (Returned(t, "dealloc") /\ last.op = "alloc") =>
            /\ th[t].item = last.addr
            /\ th[t].err = MPOOL_SUCCESS
            /\ FreeAddrs = AddrsOf(last.pool.block_list, last.blocks)
            /\ FreeList = ListOf(last.pool.block_list, last.blocks)
            /\ UnusedList = ListOf(last.pool.unused_blocks, last.blocks)
            /\ pool.block_list_size = last.pool.block_list_size
            /\ pool.unused_block_list_size = last.pool.unused_block_list_size
            /\ pool.capacity = last.pool.capacity

\* the round trip was made in a pool grown once, with two blocks or more
\* on the free list and a block on loan
C32_Witness ==
    \E t \in Threads :
        /\ Succeeded(t, "dealloc")
        /\ last.op = "alloc"
        /\ Len(FreeList) >= 2
        /\ pool.unused_blocks # NULL
        /\ pool.alloc_count >= 2

(***************************************************************************)
(* C33: with one caller, after a successful init_mpool, the capacity       *)
(* guard of _add_block never fires: not for a descriptor _partition_blob   *)
(* has made, in init_mpool or in mpool_realloc, and not for the            *)
(* descriptor an mpool_dealloc has popped from an unused list that was     *)
(* not empty, whatever address is released.  So init_mpool and             *)
(* mpool_realloc never return MPOOL_FULL_LIST, and mpool_dealloc does      *)
(* only when the unused list was empty.                                    *)
(***************************************************************************)
C33_CapacityGuardNeverFires ==
    \A t \in Threads :
        /\ (th[t].pc = "ab_check" /\ th[t].b # NULL) =>
              pool.block_list_size + 1 <= pool.capacity
        /\ (th[t].pc = "ret" /\ th[t].op \in {"init", "realloc"}) =>
              th[t].err # MPOOL_FULL_LIST
        /\ (Returned(t, "dealloc") /\ pre.pool.unused_blocks # NULL) =>
              th[t].err # MPOOL_FULL_LIST

\* a release that made the free list as long as the capacity has passed the
\* guard, in a pool grown once: the address was not on loan
C33_Witness ==
    \E t \in Threads :
        /\ Succeeded(t, "dealloc")
        /\ th[t].item \notin DOMAIN loaned
        /\ pool.block_list_size = pool.capacity
        /\ pool.capacity >= 2
        /\ pool.alloc_count >= 2

====
